---- MODULE Spec2Model ----
(***************************************************************************)
(* Monte Carlo tree search with UCB1 (src/monte_carlo.rs): the search      *)
(* driver tree_search, the tree policy, the random playout, the reward     *)
(* model and backpropagation, run over small table-driven games that       *)
(* implement the game_state interface (legal_moves, place, win, player).   *)
(***************************************************************************)
EXTENDS Integers, Sequences, FiniteSets, TLC

(* ------------------------------------------------------------------ *)
(* Bounds                                                             *)
(* ------------------------------------------------------------------ *)

\* greatest number of iterations the 3.5 s budget lets the loop start
MaxIter == 9

(* ------------------------------------------------------------------ *)
(* game_state value types                                             *)
(* ------------------------------------------------------------------ *)

Color == {"White", "Black", "Empty"}

InProgress == [tag |-> "InProgress", color |-> "Empty"]
Tie == [tag |-> "Tie", color |-> "Empty"]
Victory(c) == [tag |-> "Victory", color |-> c]

End == {InProgress, Tie} \cup {Victory(c) : c \in Color}

\* game_state::Move::white_new(0)
DefaultMove == [color |-> "White", col |-> 0]

\* value of a Move local before its first assignment
NoMove == [color |-> "Empty", col |-> 0]

\* a call of place that does not return (it panics)
Abort == 0

(* ------------------------------------------------------------------ *)
(* Games: positions are 1..n, position 1 is the root handed to        *)
(* tree_search; cols[p] lists the legal moves of p in legal-move      *)
(* order and next[p][i] is the position its i-th legal move leads to. *)
(* ------------------------------------------------------------------ *)

\* a root without a legal move
NoMoves ==
    [ player |-> << "White" >>,
      cols   |-> << << >> >>,
      next   |-> << << >> >>,
      win    |-> << InProgress >> ]

\* a root with exactly one legal move
OneMove ==
    [ player |-> << "Black", "White" >>,
      cols   |-> << << 1 >>, << >> >>,
      next   |-> << << 2 >>, << >> >>,
      win    |-> << InProgress, InProgress >> ]

\* root with a winning move A (position 2) before a losing move B (position 3)
ToyAB ==
    [ player |-> << "White", "Black", "Black" >>,
      cols   |-> << << 0, 1 >>, << >>, << >> >>,
      next   |-> << << 2, 3 >>, << >>, << >> >>,
      win    |-> << InProgress, Victory("White"), Victory("Black") >> ]

\* the same game with the losing move B (position 3) listed first
ToyBA ==
    [ player |-> << "White", "Black", "Black" >>,
      cols   |-> << << 0, 1 >>, << >>, << >> >>,
      next   |-> << << 3, 2 >>, << >>, << >> >>,
      win    |-> << InProgress, Victory("White"), Victory("Black") >> ]

\* two root moves (positions 2 and 3) that transpose into positions 4 and 5
Transpose ==
    [ player |-> << "White", "Black", "Black", "White", "White", "Black", "Black" >>,
      cols   |-> << << 0, 1 >>, << 0, 1 >>, << 0, 1 >>, << >>, << 0, 1 >>, << >>, << >> >>,
      next   |-> << << 2, 3 >>, << 4, 5 >>, << 4, 5 >>, << >>, << 6, 7 >>, << >>, << >> >>,
      win    |-> << InProgress, InProgress, InProgress, Victory("White"), InProgress,
                    Victory("White"), Victory("Black") >> ]

\* a line of play whose last position has no legal move and no winner
Chain ==
    [ player |-> << "White", "Black", "White" >>,
      cols   |-> << << 0 >>, << 0 >>, << >> >>,
      next   |-> << << 2 >>, << 3 >>, << >> >>,
      win    |-> << InProgress, InProgress, InProgress >> ]

\* a root that is already decided but still has a legal move
WonRoot ==
    [ player |-> << "White", "Black" >>,
      cols   |-> << << 0 >>, << >> >>,
      next   |-> << << 2 >>, << >> >>,
      win    |-> << Victory("Black"), Victory("Black") >> ]

\* two columns of height one: both move orders fill the board, a tie
Mini ==
    [ player |-> << "White", "Black", "Black", "White" >>,
      cols   |-> << << 0, 1 >>, << 1 >>, << 0 >>, << >> >>,
      next   |-> << << 2, 3 >>, << 4 >>, << 4 >>, << >> >>,
      win    |-> << InProgress, InProgress, InProgress, Tie >> ]

\* two columns of height two; two equal discs side by side in a row win,
\* a full board without a winner is a tie
Drop ==
    [ player |-> << "White", "Black", "Black", "White", "White", "White", "White",
                    "Black", "Black", "Black", "Black", "Black", "Black",
                    "White", "White", "White", "White", "White" >>,
      cols   |-> << <<0, 1>>, <<0, 1>>, <<0, 1>>, <<1>>, <<0, 1>>, <<0, 1>>, <<0>>,
                    <<1>>, <<1>>, <<0>>, <<1>>, <<0>>, <<0>>,
                    << >>, << >>, << >>, << >>, << >> >>,
      next   |-> << <<2, 3>>, <<4, 5>>, <<6, 7>>, <<8>>, <<9, 10>>, <<11, 12>>, <<13>>,
                    <<14>>, <<15>>, <<16>>, <<17>>, <<18>>, <<14>>,
                    << >>, << >>, << >>, << >>, << >> >>,
      win    |-> << InProgress, InProgress, InProgress, InProgress, InProgress,
                    InProgress, InProgress, Victory("White"), InProgress, InProgress,
                    InProgress, InProgress, Victory("White"), Victory("White"),
                    Tie, Tie, Tie, Tie >> ]

Games == << NoMoves, OneMove, ToyAB, ToyBA, Transpose, Chain, WonRoot, Mini, Drop >>

VARIABLES
    game,            \* index of the game being searched
    pc,              \* position of tree_search
    visited_states,  \* HashSet<GameState>
    statistics,      \* HashMap<GameState, UCTData>
    path,            \* tree_policy: path
    current_node,    \* tree_policy: current_node
    expanded_node,   \* TreePolicyResult.expanded_node
    state,           \* run_simulation: state (the playout's start)
    current_state,   \* run_simulation: current_state
    random_move,     \* run_simulation: random_move
    result,          \* run_simulation's return value
    best_move,       \* tree_search: best_move
    iterations,      \* completed iterations of the search loop
    bp_count         \* occurrences of each position in backpropagated paths

vars == << game, pc, visited_states, statistics, path, current_node,
           expanded_node, state, current_state, random_move, result,
           best_move, iterations, bp_count >>

G == Games[game]
Positions == 1 .. Len(G.player)
root == 1

(* ------------------------------------------------------------------ *)
(* game_state interface                                               *)
(* ------------------------------------------------------------------ *)

player(p) == G.player[p]
win(p) == G.win[p]

\* GameState::legal_moves(color)
legal_moves(p, color) ==
    [ i \in 1 .. Len(G.cols[p]) |-> [color |-> color, col |-> G.cols[p][i]] ]

IsLegal(p, mv) ==
    /\ mv.color = player(p)
    /\ \E i \in 1 .. Len(G.cols[p]) : G.cols[p][i] = mv.col

\* GameState::place(&move) for a legal move
place(p, mv) ==
    G.next[p][CHOOSE i \in 1 .. Len(G.cols[p]) : G.cols[p][i] = mv.col]

\* what a call of place can do: the interface fixes the result of a legal
\* move only; an illegal one may return any position or not return
PlaceOutcomes(p, mv) ==
    IF IsLegal(p, mv) THEN { place(p, mv) } ELSE Positions \cup { Abort }

(* ------------------------------------------------------------------ *)
(* Reward model                                                       *)
(* ------------------------------------------------------------------ *)

victory(end) == end.tag \in {"Victory", "Tie"}

\* get_result_value rewarding the victory of the other colour
get_result_value_flipped(end, pl) ==
    CASE end.tag = "Tie" -> 1
      [] end.tag = "Victory" -> IF end.color = pl THEN 0 ELSE 2
      [] OTHER -> 0

\* get_result_value, in halves (2 = 1.0, 1 = 0.5, 0 = 0.0)
get_result_value(end, pl) ==
    CASE end.tag = "Tie" -> 1
      [] end.tag = "Victory" -> IF end.color = pl THEN 2 ELSE 0
      [] OTHER -> 0

\* get_tie_or_win with the tie arm returning 0
get_tie_or_win_no_tie(end, pl) ==
    CASE end.tag = "Tie" -> 0
      [] end.tag = "Victory" -> IF end.color = pl THEN 1 ELSE 0
      [] OTHER -> 0

get_tie_or_win(end, pl) ==
    CASE end.tag = "Tie" -> 1
      [] end.tag = "Victory" -> IF end.color = pl THEN 1 ELSE 0
      [] OTHER -> 0

\* state_previous_player returning the player who moves next
state_next_player(p) == player(p)

state_previous_player(p) ==
    CASE player(p) = "White" -> "Black"
      [] player(p) = "Black" -> "White"
      [] OTHER -> "White"

\* UCTData::new(0f64, 0)
NewUCTData == [wins2 |-> 0, num_plays |-> 0, win_tie |-> 0]

(* ------------------------------------------------------------------ *)
(* UCB1.  f64 values are carried in millionths; ln comes from a table *)
(* of ln(t) * 10^7 and sqrt is the integer square root refined by one *)
(* Newton step, which orders every pair of scores the model can reach *)
(* as the f64 arithmetic does.                                        *)
(* ------------------------------------------------------------------ *)

\* f64 NaN: every comparison with it is false
NaN == -1

\* (t as f64).ln() * 10^7 for t = 1 .. 16
LnTable ==
    << 0, 6931472, 10986123, 13862944, 16094379, 17917595, 19459101,
       20794415, 21972246, 23025851, 23978953, 24849066, 25649494,
       26390573, 27080502, 27725887 >>

RECURSIVE SqrtSearch(_, _, _)
\* the greatest r in lo .. hi with r * r <= x, by bisection (mid is bound
\* through a singleton set so that it is a value in the recursive call)
SqrtSearch(x, lo, hi) ==
    IF lo >= hi THEN lo
    ELSE CHOOSE r \in { IF mid * mid <= x THEN SqrtSearch(x, mid, hi)
                        ELSE SqrtSearch(x, lo, mid - 1) :
                        mid \in { (lo + hi + 1) \div 2 } } : TRUE

\* sqrt of x / 10^8, in millionths
Sqrt(x) ==
    LET r == SqrtSearch(x, 0, 46340)
    IN  IF r = 0 THEN 0 ELSE r * 100 + ((x - r * r) * 100) \div (2 * r)

\* ucb1(win_value, number_played, total_played); ln(0) is -inf and a
\* division by 0 is inf or NaN, and each of them makes the sum NaN
\* (an entry with number_played = 0 has win_value = 0)
ucb1(wins2, number_played, total_played) ==
    IF number_played < 1 \/ total_played < 1 THEN NaN
    ELSE Sqrt((2 * LnTable[total_played] * 10) \div number_played)
         + (wins2 * 1000000) \div (2 * number_played)

\* the comparison written as uct >= best_uct
GreaterOrEqual(uct, best_uct) == uct # NaN /\ best_uct # NaN /\ uct >= best_uct

\* the comparison uct > best_uct of two f64
Greater(uct, best_uct) == uct # NaN /\ best_uct # NaN /\ uct > best_uct

(* ------------------------------------------------------------------ *)
(* tree_policy                                                        *)
(* ------------------------------------------------------------------ *)

fully_explored(node, visited) ==
    \A i \in 1 .. Len(G.cols[node]) : G.next[node][i] \in visited

\* not_explored without the filter: every legal move is offered
not_explored_unfiltered(node, visited) == legal_moves(node, player(node))

\* the legal moves of node whose resulting position is not visited
not_explored(node, visited) ==
    SelectSeq(legal_moves(node, player(node)),
              LAMBDA x : place(node, x) \notin visited)

\* score of the position a legal move of node leads to
uct_of(node, mv, stats) ==
    ucb1(stats[place(node, mv)].wins2, stats[place(node, mv)].num_plays,
         stats[node].num_plays)

\* the for loop of the ucb1 branch from index i on
RECURSIVE SelectFrom(_, _, _, _, _, _)
SelectFrom(node, possible_moves, stats, i, best_uct, best) ==
    IF i > Len(possible_moves) THEN best
    ELSE LET uct == uct_of(node, possible_moves[i], stats)
         IN  IF Greater(uct, best_uct)
             THEN SelectFrom(node, possible_moves, stats, i + 1, uct, possible_moves[i])
             ELSE SelectFrom(node, possible_moves, stats, i + 1, best_uct, best)

\* the move the ucb1 branch descends by
ucb_best_move(node, stats) ==
    LET possible_moves == legal_moves(node, player(node))
    IN  SelectFrom(node, possible_moves, stats, 1, 0,
                   possible_moves[Len(possible_moves)])

\* the expansion branch without path.push(chosen_node)
expansion_path_no_push(p, node, chosen_node) == Append(p, node)

\* the expansion branch without the push of the current node (line 203)
expansion_path_child_only(p, node, chosen_node) == Append(p, chosen_node)

\* the path returned by the expansion branch
expansion_path(p, node, chosen_node) == Append(Append(p, node), chosen_node)

(* ------------------------------------------------------------------ *)
(* optimal_move_most_visisted                                         *)
(* ------------------------------------------------------------------ *)

\* the for loop of optimal_move_most_visisted written with >=
RECURSIVE MostVisitedFromGeq(_, _, _, _)
MostVisitedFromGeq(possible_moves, i, most_played, best) ==
    IF i > Len(possible_moves) THEN best
    ELSE IF possible_moves[i][2].num_plays >= most_played
         THEN MostVisitedFromGeq(possible_moves, i + 1,
                                 possible_moves[i][2].num_plays, possible_moves[i][1])
         ELSE MostVisitedFromGeq(possible_moves, i + 1, most_played, best)

\* the for loop of optimal_move_most_visisted from index i on
RECURSIVE MostVisitedFrom(_, _, _, _)
MostVisitedFrom(possible_moves, i, most_played, best) ==
    IF i > Len(possible_moves) THEN best
    ELSE IF possible_moves[i][2].num_plays > most_played
         THEN MostVisitedFrom(possible_moves, i + 1,
                              possible_moves[i][2].num_plays, possible_moves[i][1])
         ELSE MostVisitedFrom(possible_moves, i + 1, most_played, best)

optimal_move_most_visisted(possible_moves) ==
    MostVisitedFrom(possible_moves, 1, 0, DefaultMove)

(* ------------------------------------------------------------------ *)
(* back_propogate                                                     *)
(* ------------------------------------------------------------------ *)

\* the Some arm of the match, for one node of the path
update_stat(stat, win_value, node) ==
    [ wins2     |-> stat.wins2 + get_result_value(win_value, state_previous_player(node)),
      num_plays |-> stat.num_plays + 1,
      win_tie   |-> stat.win_tie + get_tie_or_win(win_value, state_previous_player(node)) ]

\* back_propogate stopping one node before the end of the path
RECURSIVE back_propogate_short(_, _, _, _)
back_propogate_short(win_value, stats, p, i) ==
    IF i >= Len(p) THEN stats
    ELSE back_propogate_short(win_value,
             IF p[i] \in DOMAIN stats
             THEN [stats EXCEPT ![p[i]] = update_stat(stats[p[i]], win_value, p[i])]
             ELSE stats,
             p, i + 1)

\* the for loop over the path from index i on
RECURSIVE back_propogate(_, _, _, _)
back_propogate(win_value, stats, p, i) ==
    IF i > Len(p) THEN stats
    ELSE back_propogate(win_value,
             IF p[i] \in DOMAIN stats
             THEN [stats EXCEPT ![p[i]] = update_stat(stats[p[i]], win_value, p[i])]
             ELSE stats,
             p, i + 1)

\* how often position q occurs in path p
Occurrences(p, q) == Cardinality({ i \in 1 .. Len(p) : p[i] = q })

(* ------------------------------------------------------------------ *)
(* tree_search                                                        *)
(* ------------------------------------------------------------------ *)

\* lines 128-133: the root is visited and has zero statistics
Init ==
    /\ game \in 1 .. Len(Games)
    /\ pc = "loop"
    /\ visited_states = { root }
    /\ statistics = [ p \in { root } |-> NewUCTData ]
    /\ path = << >>
    /\ current_node = root
    /\ expanded_node = root
    /\ state = root
    /\ current_state = root
    /\ random_move = NoMove
    /\ result = InProgress
    /\ best_move = NoMove
    /\ iterations = 0
    /\ bp_count = [ p \in Positions |-> 0 ]

\* the deadline has not passed: an iteration starts and calls tree_policy
Iterate ==
    /\ pc = "loop"
    /\ iterations < MaxIter
    /\ pc' = "policy"
    /\ path' = << >>
    /\ current_node' = root
    /\ UNCHANGED << game, visited_states, statistics, expanded_node, state,
                    current_state, random_move, result, best_move, iterations,
                    bp_count >>

\* the deadline has passed: the loop ends
Timeout ==
    /\ pc = "loop"
    /\ pc' = "finalize"
    /\ UNCHANGED << game, visited_states, statistics, path, current_node,
                    expanded_node, state, current_state, random_move, result,
                    best_move, iterations, bp_count >>

\* tree_policy, one turn of its loop: no legal moves or the game has ended
PolicyStop ==
    /\ pc = "policy"
    /\ \/ Len(legal_moves(current_node, player(current_node))) < 1
       \/ victory(win(current_node))
    /\ path' = Append(path, current_node)
    /\ expanded_node' = current_node
    /\ pc' = "expand"
    /\ UNCHANGED << game, visited_states, statistics, current_node, state,
                    current_state, random_move, result, best_move, iterations,
                    bp_count >>

\* tree_policy, one turn of its loop: a random unexplored child is chosen
PolicyExpand ==
    /\ pc = "policy"
    /\ Len(legal_moves(current_node, player(current_node))) >= 1
    /\ ~ victory(win(current_node))
    /\ ~ fully_explored(current_node, visited_states)
    /\ \E k \in 1 .. Len(not_explored(current_node, visited_states)) :
          LET random_choice == not_explored(current_node, visited_states)[k]
              chosen_node == place(current_node, random_choice)
          IN  /\ path' = expansion_path(path, current_node, chosen_node)
              /\ expanded_node' = chosen_node
    /\ pc' = "expand"
    /\ UNCHANGED << game, visited_states, statistics, current_node, state,
                    current_state, random_move, result, best_move, iterations,
                    bp_count >>

\* the ucb1 branch without the descent: the walk stays where it is
PolicySelectStays ==
    /\ pc = "policy"
    /\ Len(legal_moves(current_node, player(current_node))) >= 1
    /\ ~ victory(win(current_node))
    /\ fully_explored(current_node, visited_states)
    /\ UNCHANGED vars

\* tree_policy, one turn of its loop: every child is visited, ucb1 selects
PolicySelect ==
    /\ pc = "policy"
    /\ Len(legal_moves(current_node, player(current_node))) >= 1
    /\ ~ victory(win(current_node))
    /\ fully_explored(current_node, visited_states)
    /\ path' = Append(path, current_node)
    /\ current_node' = place(current_node, ucb_best_move(current_node, statistics))
    /\ UNCHANGED << game, pc, visited_states, statistics, expanded_node, state,
                    current_state, random_move, result, best_move, iterations,
                    bp_count >>

\* the expand step without visited_states.insert
ExpandWithoutVisit ==
    /\ pc = "expand"
    /\ IF expanded_node \notin visited_states
       THEN statistics' = [ p \in DOMAIN statistics \cup { expanded_node } |->
                              IF p = expanded_node THEN NewUCTData ELSE statistics[p] ]
       ELSE UNCHANGED statistics
    /\ state' = expanded_node
    /\ current_state' = expanded_node
    /\ pc' = "simulate"
    /\ UNCHANGED << game, visited_states, path, current_node, expanded_node,
                    random_move, result, best_move, iterations, bp_count >>

\* the expand step without the visited_states check: the entry is inserted
\* again for a visited node
ExpandUnchecked ==
    /\ pc = "expand"
    /\ statistics' = [ p \in DOMAIN statistics \cup { expanded_node } |->
                          IF p = expanded_node THEN NewUCTData ELSE statistics[p] ]
    /\ visited_states' = visited_states \cup { expanded_node }
    /\ state' = expanded_node
    /\ current_state' = expanded_node
    /\ pc' = "simulate"
    /\ UNCHANGED << game, path, current_node, expanded_node, random_move, result,
                    best_move, iterations, bp_count >>

\* the expand step without statistics.insert
ExpandWithoutStatistics ==
    /\ pc = "expand"
    /\ IF expanded_node \notin visited_states
       THEN visited_states' = visited_states \cup { expanded_node }
       ELSE UNCHANGED visited_states
    /\ state' = expanded_node
    /\ current_state' = expanded_node
    /\ pc' = "simulate"
    /\ UNCHANGED << game, statistics, path, current_node, expanded_node,
                    random_move, result, best_move, iterations, bp_count >>

\* the expand step registering nothing
ExpandWithoutInsert ==
    /\ pc = "expand"
    /\ state' = expanded_node
    /\ current_state' = expanded_node
    /\ pc' = "simulate"
    /\ UNCHANGED << game, visited_states, statistics, path, current_node,
                    expanded_node, random_move, result, best_move, iterations,
                    bp_count >>

\* lines 141-148: register the expanded node, then call run_simulation
Expand ==
    /\ pc = "expand"
    /\ IF expanded_node \notin visited_states
       THEN /\ statistics' = [ p \in DOMAIN statistics \cup { expanded_node } |->
                                 IF p = expanded_node THEN NewUCTData ELSE statistics[p] ]
            /\ visited_states' = visited_states \cup { expanded_node }
       ELSE UNCHANGED << statistics, visited_states >>
    /\ state' = expanded_node
    /\ current_state' = expanded_node
    /\ pc' = "simulate"
    /\ UNCHANGED << game, path, current_node, expanded_node, random_move, result,
                    best_move, iterations, bp_count >>

\* run_simulation: the moves offered in one turn of the loop (line 71)
sim_possible_moves == legal_moves(state, player(current_state))

\* run_simulation: the loop ends and current_state.win() is returned
SimReturn ==
    /\ pc = "simulate"
    /\ \/ victory(win(current_state))
       \/ Len(sim_possible_moves) < 1
    /\ result' = win(current_state)
    /\ pc' = "backprop"
    /\ UNCHANGED << game, visited_states, statistics, path, current_node,
                    expanded_node, state, current_state, random_move, best_move,
                    iterations, bp_count >>

\* run_simulation: a random move is chosen and placed
SimMove ==
    /\ pc = "simulate"
    /\ ~ victory(win(current_state))
    /\ Len(sim_possible_moves) >= 1
    /\ \E k \in 1 .. Len(sim_possible_moves) :
          /\ random_move' = sim_possible_moves[k]
          /\ \E next_state \in PlaceOutcomes(current_state, sim_possible_moves[k]) \ { Abort } :
                current_state' = next_state
    /\ UNCHANGED << game, pc, visited_states, statistics, path, current_node,
                    expanded_node, state, result, best_move, iterations, bp_count >>

\* run_simulation: a random move is chosen and place does not return
SimPanic ==
    /\ pc = "simulate"
    /\ ~ victory(win(current_state))
    /\ Len(sim_possible_moves) >= 1
    /\ \E k \in 1 .. Len(sim_possible_moves) :
          /\ random_move' = sim_possible_moves[k]
          /\ Abort \in PlaceOutcomes(current_state, sim_possible_moves[k])
    /\ pc' = "sim_panic"
    /\ UNCHANGED << game, visited_states, statistics, path, current_node,
                    expanded_node, state, current_state, result, best_move,
                    iterations, bp_count >>

\* line 151: back_propogate over the path; the iteration is complete and
\* its locals go out of scope
BackPropagate ==
    /\ pc = "backprop"
    /\ statistics' = back_propogate(result, statistics, path, 1)
    /\ bp_count' = [ p \in Positions |->
                       IF p \in DOMAIN statistics
                       THEN bp_count[p] + Occurrences(path, p) ELSE bp_count[p] ]
    /\ iterations' = iterations + 1
    /\ pc' = "loop"
    /\ path' = << >>
    /\ current_node' = root
    /\ expanded_node' = root
    /\ state' = root
    /\ current_state' = root
    /\ random_move' = NoMove
    /\ result' = InProgress
    /\ UNCHANGED << game, visited_states, best_move >>

\* line 154: the root's legal moves paired with their children's statistics
root_possible_moves ==
    [ i \in 1 .. Len(legal_moves(root, player(root))) |->
        << legal_moves(root, player(root))[i],
           statistics[place(root, legal_moves(root, player(root))[i])] >> ]

\* line 154: a child of the root has no statistics and unwrap panics
FinalizeMissing ==
    /\ pc = "finalize"
    /\ \E i \in 1 .. Len(legal_moves(root, player(root))) :
          place(root, legal_moves(root, player(root))[i]) \notin DOMAIN statistics
    /\ pc' = "finalize_panic"
    /\ UNCHANGED << game, visited_states, statistics, path, current_node,
                    expanded_node, state, current_state, random_move, result,
                    best_move, iterations, bp_count >>

HasRootData ==
    \A i \in 1 .. Len(legal_moves(root, player(root))) :
        place(root, legal_moves(root, player(root))[i]) \in DOMAIN statistics

\* lines 155-158: the best move's statistics are found and it is returned
FinalizeReturn ==
    /\ pc = "finalize"
    /\ HasRootData
    /\ best_move' = optimal_move_most_visisted(root_possible_moves)
    /\ \E placed \in PlaceOutcomes(root, best_move') :
          /\ placed # Abort
          /\ placed \in DOMAIN statistics
    /\ pc' = "done"
    /\ UNCHANGED << game, visited_states, statistics, path, current_node,
                    expanded_node, state, current_state, random_move, result,
                    iterations, bp_count >>

\* line 156: place does not return, or the position it returns has no
\* statistics and unwrap panics
FinalizePanic ==
    /\ pc = "finalize"
    /\ HasRootData
    /\ best_move' = optimal_move_most_visisted(root_possible_moves)
    /\ \E placed \in PlaceOutcomes(root, best_move') :
          placed = Abort \/ placed \notin DOMAIN statistics
    /\ pc' = "finalize_panic"
    /\ UNCHANGED << game, visited_states, statistics, path, current_node,
                    expanded_node, state, current_state, random_move, result,
                    iterations, bp_count >>

Next ==
    \/ Iterate
    \/ Timeout
    \/ PolicyStop
    \/ PolicyExpand
    \/ PolicySelect
    \/ Expand
    \/ SimReturn
    \/ SimMove
    \/ SimPanic
    \/ BackPropagate
    \/ FinalizeMissing
    \/ FinalizeReturn
    \/ FinalizePanic

Spec == Init /\ [][Next]_vars

\* the loop body and Finalize are straight-line code: a step that can be
\* taken is taken
FairSpec == Spec /\ WF_vars(Next)

TypeOK ==
    /\ game \in 1 .. Len(Games)
    /\ pc \in {"loop", "policy", "expand", "simulate", "backprop", "finalize",
               "done", "sim_panic", "finalize_panic"}
    /\ visited_states \subseteq Positions
    /\ DOMAIN statistics \subseteq Positions
    /\ iterations \in 0 .. MaxIter

(* ------------------------------------------------------------------ *)
(* Properties                                                         *)
(* ------------------------------------------------------------------ *)

root_moves == legal_moves(root, player(root))
Finalized == pc \in {"done", "finalize_panic"}

\* C1: for a root with no legal move, Finalize does not fail and
\* tree_search returns the canonical default move.
C1_NoMovesReturnsDefault ==
    (Len(root_moves) = 0) =>
        /\ pc # "finalize_panic"
        /\ (pc = "done" => best_move = DefaultMove)

\* plays of the position the i-th legal move of the root leads to
root_child_plays(i) == statistics[place(root, root_moves[i])].num_plays

\* C2: when Finalize runs on a root with a legal move, the move returned is
\* a legal move of the root whose child has the greatest numPlays, and no
\* earlier move's child has as many.
C2_FinalizeReturnsMostPlayed ==
    (Finalized /\ Len(root_moves) >= 1) =>
        /\ pc = "done"
        /\ \E i \in 1 .. Len(root_moves) :
              /\ best_move = root_moves[i]
              /\ \A j \in 1 .. Len(root_moves) : root_child_plays(j) <= root_child_plays(i)
              /\ \A j \in 1 .. i - 1 : root_child_plays(j) < root_child_plays(i)

\* the opponent of the root's player
root_opponent == IF player(root) = "White" THEN "Black" ELSE "White"

\* the toy game: two root moves, one wins at once and the other loses at once
IsToy ==
    /\ Len(root_moves) = 2
    /\ \E a, b \in 1 .. 2 :
          /\ a # b
          /\ win(place(root, root_moves[a])) = Victory(player(root))
          /\ win(place(root, root_moves[b])) = Victory(root_opponent)

MoveA == root_moves[CHOOSE a \in 1 .. 2 : win(place(root, root_moves[a])) = Victory(player(root))]
MoveB == root_moves[CHOOSE b \in 1 .. 2 : win(place(root, root_moves[b])) = Victory(root_opponent)]

BothExplored ==
    \A i \in 1 .. 2 :
        /\ place(root, root_moves[i]) \in visited_states
        /\ root_child_plays(i) >= 1

\* C3 as stated: in the toy game, after any nonzero number of completed
\* iterations that explored both children, Finalize returns A.
C3_ToyReturnsA_Original ==
    (IsToy /\ pc = "done" /\ iterations >= 1 /\ BothExplored) => best_move = MoveA

\* C3 amended: in the toy game, after three or more completed iterations
\* Finalize returns A; after exactly two, A and B have one play each and
\* Finalize returns the first move in legal-move order.
C3_ToyReturnsA ==
    (IsToy /\ pc = "done") =>
        /\ (iterations >= 3 => best_move = MoveA)
        /\ (iterations = 2 => BothExplored /\ best_move = root_moves[1])

\* B is listed first and was explored more than once, and A was returned
C3_Witness ==
    /\ IsToy /\ pc = "done" /\ iterations >= 3
    /\ MoveB = root_moves[1]
    /\ statistics[place(root, MoveB)].num_plays >= 2
    /\ best_move = MoveA

\* C4: a root with exactly one legal move: tree_search returns that move
\* after any number of completed iterations, zero included.
C4_OneMoveReturned ==
    (Finalized /\ Len(root_moves) = 1) => (pc = "done" /\ best_move = root_moves[1])

\* C5: every entry's numPlays is the number of times its position occurred
\* in the backpropagated paths since the entry was created, and the root's
\* numPlays is the number of completed iterations.
C5_PlaysCountPathOccurrences ==
    /\ \A p \in DOMAIN statistics : statistics[p].num_plays = bp_count[p]
    /\ statistics[root].num_plays = iterations

\* a position reached along two different paths has been counted on both
C5_Witness ==
    /\ pc = "loop"
    /\ iterations >= 4
    /\ \E p \in DOMAIN statistics :
          /\ p # root
          /\ statistics[p].num_plays >= 2
          /\ Cardinality({ q \in DOMAIN statistics :
                             \E i \in 1 .. Len(G.cols[q]) : G.next[q][i] = p
                                                            /\ statistics[q].num_plays >= 2 }) >= 2

\* C6: in a playout every move applied is a legal move of the position it
\* is applied to, and the playout stops as soon as the current position is
\* a win or tie or has no legal move.
C6_PlayoutUsesCurrentPosition ==
    [][ pc = "simulate" =>
          IF victory(win(current_state))
             \/ Len(legal_moves(current_state, player(current_state))) < 1
          THEN pc' = "backprop"
          ELSE IsLegal(current_state, random_move') ]_vars

\* C7: in a finite game every playout returns an End value.
C7_PlayoutTerminates == (pc = "simulate") ~> (pc = "backprop")

\* the tree policy is about to score the children of current_node
Scoring ==
    /\ pc = "policy"
    /\ Len(legal_moves(current_node, player(current_node))) >= 1
    /\ ~ victory(win(current_node))
    /\ fully_explored(current_node, visited_states)

\* C8: ucb1 is only called with plays > 0 for the child being scored and
\* with a parent total of at least 1.
C8_Ucb1ArgumentsPositive ==
    Scoring =>
        /\ statistics[current_node].num_plays >= 1
        /\ \A i \in 1 .. Len(G.cols[current_node]) :
              /\ G.next[current_node][i] \in DOMAIN statistics
              /\ statistics[G.next[current_node][i]].num_plays > 0

\* the children of a position below the root are scored
C8_Witness ==
    /\ Scoring
    /\ current_node # root
    /\ Len(G.cols[current_node]) >= 2

\* C9: rewardValue is 1 for a victory of the perspective, 0.5 for a tie and
\* 0 otherwise; winOrTieIndicator is 1 for a victory of the perspective or
\* a tie and 0 otherwise; a reward of 1 or 0.5 implies an indicator of 1
\* (for every outcome, the one a playout has returned among them).
C9_RewardModel ==
    \A end \in End \cup { result }, pl \in Color :
        /\ get_result_value(end, pl) =
              (IF end = Victory(pl) THEN 2 ELSE IF end = Tie THEN 1 ELSE 0)
        /\ get_tie_or_win(end, pl) =
              (IF end = Victory(pl) \/ end = Tie THEN 1 ELSE 0)
        /\ (get_result_value(end, pl) = 2 => get_tie_or_win(end, pl) = 1)
        /\ (get_result_value(end, pl) = 1 => get_tie_or_win(end, pl) = 1)

\* a tie has been backpropagated: an entry holds half a win and one win-or-tie
C9_Witness ==
    \E p \in DOMAIN statistics :
        /\ statistics[p].wins2 = 1
        /\ statistics[p].win_tie = 1
        /\ statistics[p].num_plays = 1

\* the scores of the legal moves of node, in legal-move order
Scores(node) ==
    [ i \in 1 .. Len(G.cols[node]) |->
        uct_of(node, legal_moves(node, player(node))[i], statistics) ]

MaxScore(node) ==
    CHOOSE m \in { Scores(node)[i] : i \in 1 .. Len(G.cols[node]) } :
        \A i \in 1 .. Len(G.cols[node]) : Scores(node)[i] <= m

\* the child reached by the first move whose score is the greatest
FirstBestChild(node) ==
    G.next[node][CHOOSE i \in 1 .. Len(G.cols[node]) :
                    /\ Scores(node)[i] = MaxScore(node)
                    /\ \A j \in 1 .. i - 1 : Scores(node)[j] < MaxScore(node)]

LastChild(node) == G.next[node][Len(G.cols[node])]

\* a step of the ucb1 branch of the tree policy
SelectStep == Scoring /\ pc' = "policy" /\ path' = Append(path, current_node)

\* C10 as stated: at a fully explored position the tree policy descends
\* into the child of the first move whose score is the greatest, also when
\* every score is 0.
C10_DescendsFirstBest_Original ==
    [][ SelectStep => current_node' = FirstBestChild(current_node) ]_vars

\* C10 amended: it descends into the child of the first move whose score is
\* the greatest when that score is above 0, and into the child of the last
\* legal move when no score is above 0.
C10_DescendsFirstBest ==
    [][ SelectStep =>
          current_node' = (IF MaxScore(current_node) > 0
                           THEN FirstBestChild(current_node)
                           ELSE LastChild(current_node)) ]_vars

\* the walk has just descended from a position with several moves whose
\* scores were all 0, by its last move and not by its first
C10_Witness ==
    /\ pc = "policy"
    /\ Len(path) >= 1
    /\ LET parent == path[Len(path)]
       IN  /\ Len(G.cols[parent]) >= 2
           /\ fully_explored(parent, visited_states)
           /\ MaxScore(parent) = 0
           /\ current_node = LastChild(parent)
           /\ current_node # FirstBestChild(parent)

\* the walk has just descended from a position where two moves shared the
\* greatest score, above 0, by the first of them
C10_TieWitness ==
    /\ pc = "policy"
    /\ Len(path) >= 1
    /\ LET parent == path[Len(path)]
       IN  /\ fully_explored(parent, visited_states)
           /\ MaxScore(parent) > 0
           /\ Cardinality({ i \in 1 .. Len(G.cols[parent]) :
                              Scores(parent)[i] = MaxScore(parent) }) >= 2
           /\ current_node = FirstBestChild(parent)
           /\ current_node # LastChild(parent)

\* the tree policy has returned through its expansion branch
ViaExpansion == pc = "expand" /\ expanded_node # current_node

\* C11: when the tree policy returns through the expansion branch, the
\* expanded node is the result of a legal move from the last selected
\* position and is not visited, and every position the walk passed before
\* had no unvisited child.
C11_ExpansionOffersUnvisited ==
    ViaExpansion =>
        /\ expanded_node \notin visited_states
        /\ \E i \in 1 .. Len(G.cols[current_node]) :
              /\ IsLegal(current_node, legal_moves(current_node, player(current_node))[i])
              /\ G.next[current_node][i] = expanded_node
        /\ Len(path) >= 2
        /\ path[Len(path) - 1] = current_node
        /\ ~ fully_explored(current_node, visited_states)
        /\ \A i \in 1 .. Len(path) - 2 : fully_explored(path[i], visited_states)

\* the walk descended by ucb1 before it expanded a child, while the position
\* it stopped at has a visited child as well
C11_Witness ==
    /\ ViaExpansion
    /\ Len(path) >= 3
    /\ \E i \in 1 .. Len(G.cols[current_node]) : G.next[current_node][i] \in visited_states

\* C12: the expand step adds exactly the expanded node to the visited set
\* and the statistics when the walk ended in the expansion branch, and
\* nothing when it ended at a position without legal moves or a decided
\* one, which is registered already; no other step of an iteration
\* registers a position.
C12_OneNewPositionPerExpansion ==
    [][ /\ (pc = "expand" /\ expanded_node # current_node) =>
              /\ expanded_node \notin visited_states
              /\ visited_states' = visited_states \cup { expanded_node }
              /\ DOMAIN statistics' = DOMAIN statistics \cup { expanded_node }
              /\ Cardinality(visited_states') = Cardinality(visited_states) + 1
        /\ (pc = "expand" /\ expanded_node = current_node) =>
              /\ Len(legal_moves(expanded_node, player(expanded_node))) < 1
                    \/ victory(win(expanded_node))
              /\ expanded_node \in visited_states
              /\ visited_states' = visited_states
              /\ statistics' = statistics
        /\ pc # "expand" =>
              /\ visited_states' = visited_states
              /\ DOMAIN statistics' = DOMAIN statistics ]_vars

\* a walk has ended at a decided position below the root, registered before
C12_Witness ==
    /\ pc = "simulate"
    /\ expanded_node = current_node
    /\ expanded_node # root
    /\ victory(win(expanded_node))
    /\ statistics[expanded_node].num_plays >= 1

\* C13: at every call of back_propogate every position of the path has a
\* statistics entry, so the skip branch is not taken.
C13_PathHasEntries ==
    pc = "backprop" => \A i \in 1 .. Len(path) : path[i] \in DOMAIN statistics

\* a path of three positions, the last one freshly expanded, is backpropagated
C13_Witness ==
    /\ pc = "backprop"
    /\ Len(path) >= 3
    /\ statistics[path[Len(path)]].num_plays = 0

\* position p is on the path
OnPath(p) == \E i \in 1 .. Len(path) : path[i] = p

\* the opponent of the player to move at p
opponent_of(p) == IF player(p) = "White" THEN "Black" ELSE "White"

\* the entry of a position on the path after the outcome is backpropagated
Backpropagated(stat, p) ==
    [ wins2     |-> stat.wins2 + (IF result = Victory(opponent_of(p)) THEN 2
                                  ELSE IF result = Tie THEN 1 ELSE 0),
      num_plays |-> stat.num_plays + 1,
      win_tie   |-> stat.win_tie + (IF result = Victory(opponent_of(p)) \/ result = Tie
                                    THEN 1 ELSE 0) ]

\* C14: backpropagation gives every entry of a position on the path one
\* more play, the reward and the win-or-tie indicator of the outcome for
\* the opponent of the position's player, and leaves every other entry and
\* the visited set unchanged; no other step changes an entry.
C14_BackpropagationFrame ==
    [][ /\ pc = "backprop" =>
              /\ visited_states' = visited_states
              /\ DOMAIN statistics' = DOMAIN statistics
              /\ \A p \in DOMAIN statistics :
                    statistics'[p] = (IF OnPath(p) THEN Backpropagated(statistics[p], p)
                                      ELSE statistics[p])
        /\ pc # "backprop" =>
              \A p \in DOMAIN statistics :
                  p \in DOMAIN statistics' /\ statistics'[p] = statistics[p] ]_vars

\* outcomes have been backpropagated that rewarded the root, that rewarded
\* a position below it twice, and that left another position at one play
C14_Witness ==
    /\ pc = "loop"
    /\ statistics[root].wins2 >= 1
    /\ \E p, q \in DOMAIN statistics \ { root } :
          /\ p # q
          /\ statistics[p].num_plays >= 2
          /\ statistics[p].wins2 >= 4
          /\ statistics[q].num_plays = 1

\* C15: an entry is created only by the expand step, for the expanded node,
\* which is not the root and was not registered, with zero statistics; no
\* entry is deleted and no entry's numPlays decreases.
C15_EntriesCreatedOnceAndKept ==
    [][ /\ \A p \in DOMAIN statistics :
              /\ p \in DOMAIN statistics'
              /\ statistics'[p].num_plays >= statistics[p].num_plays
        /\ \A p \in DOMAIN statistics' \ DOMAIN statistics :
              /\ pc = "expand"
              /\ p = expanded_node
              /\ p # root
              /\ p \notin visited_states
              /\ statistics'[p] = [wins2 |-> 0, num_plays |-> 0, win_tie |-> 0] ]_vars

\* a position with two visited parents has been played through each of them
C15_Witness ==
    /\ pc = "loop"
    /\ \E p \in DOMAIN statistics :
          /\ statistics[p].num_plays >= 3
          /\ \E q1, q2 \in DOMAIN statistics :
                /\ q1 # q2
                /\ \E i \in 1 .. Len(G.cols[q1]) : G.next[q1][i] = p
                /\ \E i \in 1 .. Len(G.cols[q2]) : G.next[q2][i] = p
                /\ fully_explored(q1, visited_states)
                /\ fully_explored(q2, visited_states)
                /\ statistics[q1].num_plays < statistics[p].num_plays
                /\ statistics[q2].num_plays < statistics[p].num_plays

\* C16: the key set of the statistics equals the visited set.
C16_StatisticsKeysAreVisited == DOMAIN statistics = visited_states

\* the expand step has just registered a fourth position
C16_Witness ==
    /\ pc = "simulate"
    /\ Cardinality(visited_states) >= 4
    /\ expanded_node \in visited_states
    /\ statistics[expanded_node].num_plays = 0

\* C17: a path returned by the tree policy starts with the root, ends with
\* the expanded node, continues at every element by a legal move of the
\* element before for that element's player, and has every element but
\* possibly the last in the visited set.
C17_PathShape ==
    pc = "expand" =>
        /\ Len(path) >= 1
        /\ path[1] = root
        /\ path[Len(path)] = expanded_node
        /\ \A i \in 2 .. Len(path) :
              \E k \in 1 .. Len(G.cols[path[i - 1]]) :
                  /\ IsLegal(path[i - 1], legal_moves(path[i - 1], player(path[i - 1]))[k])
                  /\ G.next[path[i - 1]][k] = path[i]
        /\ \A i \in 1 .. Len(path) - 1 : path[i] \in visited_states

\* a path of four positions whose last one is not visited has been returned
C17_Witness ==
    /\ pc = "expand"
    /\ Len(path) >= 4
    /\ expanded_node \notin visited_states

\* C18: after a completed iteration every entry has
\* 0 <= wins <= winTieCount <= numPlays and numPlays >= 1; an entry with
\* numPlays = 0 is the root's before the first iteration completes or the
\* freshly expanded node's before the backpropagation of its iteration.
C18_EntryRanges ==
    /\ (pc = "loop" /\ iterations >= 1) =>
          \A p \in DOMAIN statistics :
              /\ 0 <= statistics[p].wins2
              /\ statistics[p].wins2 <= 2 * statistics[p].win_tie
              /\ statistics[p].win_tie <= statistics[p].num_plays
              /\ statistics[p].num_plays >= 1
    /\ \A p \in DOMAIN statistics :
          statistics[p].num_plays = 0 =>
              \/ p = root /\ iterations = 0
              \/ /\ p = expanded_node
                 /\ p # root
                 /\ pc \in {"simulate", "backprop", "sim_panic"}

\* an entry holds wins, ties and losses: 0 < wins < winTieCount < numPlays
C18_Witness ==
    /\ pc = "loop"
    /\ \E p \in DOMAIN statistics :
          /\ 0 < statistics[p].wins2
          /\ statistics[p].wins2 < 2 * statistics[p].win_tie
          /\ statistics[p].win_tie < statistics[p].num_plays

\* C19: in a finite game without recurring positions every walk of the tree
\* policy returns, by the expansion branch or at a moveless or decided
\* position.
C19_WalkTerminates == (pc = "policy") ~> (pc = "expand")

\* a walk that descended by ucb1 twice has returned at a decided position
C19_Witness ==
    /\ pc = "expand"
    /\ Len(path) >= 3
    /\ expanded_node = current_node
    /\ victory(win(expanded_node))

====
